---- MODULE Spec2Model ----
(***************************************************************************)
(* MJPEG relay (server.mjs, src/unnamed/part_002; the Socket.IO variant    *)
(* src/unnamed/part_001 shares the TCP data handler and handleFrame).      *)
(*                                                                         *)
(* A camera connects over TCP and streams bytes; the per-connection data   *)
(* handler cuts frames out of the accumulated buffer (jpeg-markers or      *)
(* len-prefix framing), handleFrame keeps the latest frame of at least     *)
(* 128 bytes, and a repeating timer writes that frame to every registered  *)
(* /stream.mjpg response.                                                  *)
(*                                                                         *)
(* Byte counts are scaled so that the state space is finite and small:     *)
(* the 128-byte minimum, the 5 MiB high-water mark and the 1 MiB tail are  *)
(* MIN_FRAME_LEN, HIGH_WATER and TAIL_SIZE below; their order              *)
(* (TAIL_SIZE < HIGH_WATER, a frame of SOI+EOI alone is below the minimum) *)
(* is the source's.                                                        *)
(***************************************************************************)
EXTENDS Integers, Sequences, FiniteSets, TLC

\* ------------------------------------------------------------------ bounds
\* Longest byte stream one camera sends in the jpeg-markers extractor runs.
MaxMarkerStream == 7
\* Longest byte stream one camera sends in the len-prefix extractor runs.
MaxLenStream == 9
\* Longest jpeg-markers byte stream in the runs that cover both modes.
MaxExtractMarkerStream == 6
\* Bytes the cameras send in total in the ingest runs.
MaxIngestBytes == 15
\* Frames sent by the cameras plus firings of the broadcast timer, in total, in
\* the whole-system runs.
MaxEvents == 4
\* Milliseconds the clock runs for in the timer runs.
MaxClock == 1000

\* ------------------------------------------------------- program constants
\* handleFrame: frame.length < 128 (scaled).
MIN_FRAME_LEN == 5
\* buffer.length > 5 * 1024 * 1024 (scaled).
HIGH_WATER == 3
\* buffer.slice(-1024 * 1024) (scaled).
TAIL_SIZE == 2
\* pendingLen = null / latestFrame = null.
NoLen == -1
NoFrame == <<-1>>

\* process.env.EMIT_FPS || 12
DEFAULT_EMIT_FPS == 12
\* Math.floor(1000 / EMIT_FPS)
MS_PER_SECOND == 1000

SOI == <<255, 216>>
EOI == <<255, 217>>

Modes == {"jpeg-markers", "len-prefix"}

\* Cameras (TCP sockets) and /stream.mjpg responses.
Conns == {"camA", "camB"}
Clients == {"res1", "res2"}

\* Bytes the cameras send in the extractor runs.
MarkerBytes == {0, 216, 217, 255}
LenBytes == {0, 1, 2}

VARIABLES
  FRAME_MODE,      \* process.env.FRAME_MODE, read once at start-up
  envEmitFps,      \* process.env.EMIT_FPS: <<>> when unset, else <<number>>
  EMIT_FPS,        \* the rate computed from it at start-up
  interval,        \* repeat period of the broadcast timer, milliseconds
  now,             \* milliseconds since the timer was created
  due,             \* the time the timer expires next
  socket,          \* socket[c]: "none" | "open" | "errored" | "closed"
  tcpClients,      \* Set of camera sockets
  buffer,          \* buffer[c]: the connection's accumulated bytes
  pendingLen,      \* pendingLen[c]: declared length being awaited, or NoLen
  latestFrame,     \* last valid frame, or NoFrame
  framesReceived,
  bytesLastFrame,
  sent,            \* history: sent[c], every byte camera c has delivered
  base,            \* history: base[c], stream offset of buffer[c][0]
  handed,          \* history: handed[c], the frames c passed to handleFrame,
                   \*          each with the stream offset of its first byte
  trimmed,         \* history: trimmed[c], bytes removed by the high-water trim
  straddled,       \* history: straddled[c], frames yielded whose first byte
                   \*          (of the header, in len-prefix mode) arrived in an
                   \*          earlier data event than their last
  mjpegClients,    \* Set of /stream.mjpg responses
  res,             \* res[r]: "none" | "open" | "ended" (res.end() was called)
  reqClosed,       \* requests whose "close" event has fired
  written,         \* written[r]: what res.write has put on r's body, in order
  threw,           \* history: responses whose write threw in the latest tick
  subscribedEmpty, \* history: responses registered while latestFrame was null
  ticks,           \* history: firings of the broadcast timer
  listening,       \* tcpServer accepts connections
  proc             \* "running" | "closing" (shutdown ran) | "exited"

ingestVars == <<socket, tcpClients, buffer, pendingLen, sent, base, handed,
                trimmed, straddled>>
cacheVars == <<latestFrame, framesReceived, bytesLastFrame>>
httpVars == <<mjpegClients, res, reqClosed, written, threw, subscribedEmpty,
             ticks>>
procVars == <<listening, proc>>
timerVars == <<envEmitFps, EMIT_FPS, interval, now, due>>

vars == <<FRAME_MODE, timerVars, ingestVars, cacheVars, httpVars, procVars>>

\* --------------------------------------------------------- Buffer helpers
Min(S) == CHOOSE x \in S : \A y \in S : x <= y

\* Buffer.concat([a, b])
Concat(a, b) == a \o b

\* buf.indexOf(pat, from): 0-based offset of the first occurrence of pat at
\* or after from, or -1.
IndexOf(buf, pat, from) ==
  LET hits == {i \in from..(Len(buf) - Len(pat)) :
                 SubSeq(buf, i + 1, i + Len(pat)) = pat}
  IN IF hits = {} THEN -1 ELSE Min(hits)

\* Mutant: the slice stops two bytes short (the end marker is left out).
SliceShort(buf, start, end) ==
  SubSeq(buf, start + 1, IF end - 2 > Len(buf) THEN Len(buf) ELSE end - 2)

\* buf.slice(start, end) with 0 <= start <= end.
Slice(buf, start, end) ==
  SubSeq(buf, start + 1, IF end > Len(buf) THEN Len(buf) ELSE end)

\* buf.slice(start): a negative start counts from the end, clamped to 0.
SliceFrom(buf, start) ==
  LET s == IF start < 0
           THEN (IF Len(buf) + start < 0 THEN 0 ELSE Len(buf) + start)
           ELSE (IF start > Len(buf) THEN Len(buf) ELSE start)
  IN SubSeq(buf, s + 1, Len(buf))

\* Mutant: the header read little-endian (readUInt32LE).
ReadUInt32LE(buf) ==
  buf[4] * 16777216 + buf[3] * 65536 + buf[2] * 256 + buf[1]

\* buf.readUInt32BE(0)
ReadUInt32BE(buf) ==
  buf[1] * 16777216 + buf[2] * 65536 + buf[3] * 256 + buf[4]

\* ------------------------------------------------------------ handleFrame
\* Mutant: the length check is missing.
handleFrameUnchecked(st, frame, at) ==
  [st EXCEPT !.handed = Append(@, [frame |-> frame, at |-> at]),
             !.latestFrame = frame,
             !.framesReceived = @ + 1,
             !.bytesLastFrame = Len(frame)]

\* Mutant: the slot is only filled while it is empty.
handleFrameKeepsFirst(st, frame, at) ==
  LET seen == [st EXCEPT !.handed = Append(@, [frame |-> frame, at |-> at])]
  IN IF Len(frame) < MIN_FRAME_LEN
     THEN seen
     ELSE [seen EXCEPT !.latestFrame =
                         IF st.latestFrame = NoFrame THEN frame ELSE @,
                       !.framesReceived = @ + 1,
                       !.bytesLastFrame = Len(frame)]

\* Mutant: the size of the last frame is not recorded.
handleFrameNoSize(st, frame, at) ==
  LET seen == [st EXCEPT !.handed = Append(@, [frame |-> frame, at |-> at])]
  IN IF Len(frame) < MIN_FRAME_LEN
     THEN seen
     ELSE [seen EXCEPT !.latestFrame = frame,
                       !.framesReceived = @ + 1]

\* Mutant: a frame below the minimum is counted, though not kept.
handleFrameCountsShort(st, frame, at) ==
  LET seen == [st EXCEPT !.handed = Append(@, [frame |-> frame, at |-> at])]
  IN IF Len(frame) < MIN_FRAME_LEN
     THEN [seen EXCEPT !.framesReceived = @ + 1]
     ELSE [seen EXCEPT !.latestFrame = frame,
                       !.framesReceived = @ + 1,
                       !.bytesLastFrame = Len(frame)]

\* st carries the connection's closure variables (buffer, pendingLen), the
\* module-level cache (latestFrame, framesReceived, bytesLastFrame) and the
\* history fields (base, handed) through one run of the data handler.
handleFrame(st, frame, at) ==
  LET seen == [st EXCEPT !.handed = Append(@, [frame |-> frame, at |-> at])]
  IN IF Len(frame) < MIN_FRAME_LEN
     THEN seen
     ELSE [seen EXCEPT !.latestFrame = frame,
                       !.framesReceived = @ + 1,
                       !.bytesLastFrame = Len(frame)]

\* --------------------------------------------------------- len-prefix loop
\* Mutant: an if in place of the while; at most one frame per data event.
LenPrefixLoopOnce(st) ==
  LET needHeader == st.pendingLen = NoLen
      st1 == IF needHeader /\ Len(st.buffer) >= 4
             THEN [st EXCEPT !.pendingLen = ReadUInt32BE(st.buffer),
                             !.buffer = SliceFrom(st.buffer, 4),
                             !.base = @ + 4]
             ELSE st
  IN IF needHeader /\ Len(st.buffer) < 4 THEN st
     ELSE IF Len(st1.buffer) < st1.pendingLen THEN st1
     ELSE LET frame == Slice(st1.buffer, 0, st1.pendingLen)
              st2 == [st1 EXCEPT !.buffer = SliceFrom(st1.buffer, st1.pendingLen),
                                 !.pendingLen = NoLen,
                                 !.base = @ + st1.pendingLen]
          IN handleFrame(st2, frame, st1.base)

RECURSIVE LenPrefixLoop(_)
LenPrefixLoop(st) ==
  LET needHeader == st.pendingLen = NoLen
      st1 == IF needHeader /\ Len(st.buffer) >= 4
             THEN [st EXCEPT !.pendingLen = ReadUInt32BE(st.buffer),
                             !.buffer = SliceFrom(st.buffer, 4),
                             !.base = @ + 4]
             ELSE st
  IN IF needHeader /\ Len(st.buffer) < 4 THEN st
     ELSE IF Len(st1.buffer) < st1.pendingLen THEN st1
     ELSE LET frame == Slice(st1.buffer, 0, st1.pendingLen)
              st2 == [st1 EXCEPT !.buffer = SliceFrom(st1.buffer, st1.pendingLen),
                                 !.pendingLen = NoLen,
                                 !.base = @ + st1.pendingLen]
          IN LenPrefixLoop(handleFrame(st2, frame, st1.base))

\* ------------------------------------------------------- jpeg-markers loop
\* Mutant: over the high-water mark the whole buffer is dropped, a trailing
\* 0xFF (the first half of a start marker) included.
NoStartMarkerClears(st) ==
  IF Len(st.buffer) > HIGH_WATER
  THEN [st EXCEPT !.buffer = <<>>,
                  !.base = @ + Len(st.buffer),
                  !.trimmed = @ + Len(st.buffer)]
  ELSE st

\* Mutant: the buffer is never trimmed.
NoStartMarkerKeeps(st) == st

\* The branch taken when the buffer holds no SOI.
NoStartMarker(st) ==
  IF Len(st.buffer) > HIGH_WATER
  THEN [st EXCEPT !.buffer = SliceFrom(st.buffer, 0 - TAIL_SIZE),
                  !.base = @ + (Len(st.buffer) - TAIL_SIZE),
                  !.trimmed = @ + (Len(st.buffer) - TAIL_SIZE)]
  ELSE st

\* Mutant: EOI is searched from the beginning of the buffer.
EoiSearchFromZero(start) == 0

\* Where the search for EOI begins, given the offset of SOI.
EoiSearchFrom(start) == start + 2

\* Mutant: the high-water trim is also applied while a start marker waits for
\* its end marker.
RECURSIVE JpegMarkersLoopTrimsPending(_)
JpegMarkersLoopTrimsPending(st) ==
  LET start == IndexOf(st.buffer, SOI, 0)
  IN IF start = -1 THEN NoStartMarker(st)
     ELSE LET end == IndexOf(st.buffer, EOI, EoiSearchFrom(start))
          IN IF end = -1 THEN NoStartMarker(st)
             ELSE LET frame == Slice(st.buffer, start, end + 2)
                      st1 == [st EXCEPT !.buffer = SliceFrom(st.buffer, end + 2),
                                        !.base = @ + end + 2]
                  IN JpegMarkersLoopTrimsPending(
                       handleFrame(st1, frame, st.base + start))

RECURSIVE JpegMarkersLoop(_)
JpegMarkersLoop(st) ==
  LET start == IndexOf(st.buffer, SOI, 0)
  IN IF start = -1 THEN NoStartMarker(st)
     ELSE LET end == IndexOf(st.buffer, EOI, EoiSearchFrom(start))
          IN IF end = -1 THEN st
             ELSE LET frame == Slice(st.buffer, start, end + 2)
                      st1 == [st EXCEPT !.buffer = SliceFrom(st.buffer, end + 2),
                                        !.base = @ + end + 2]
                  IN JpegMarkersLoop(handleFrame(st1, frame, st.base + start))

\* ------------------------------------------------------ socket.on("data")
\* Mutant: Buffer.concat([chunk, buffer]).
AccumulatePrepends(buf, chunk) == Concat(chunk, buf)

\* Mutant: the chunk replaces the buffer instead of being appended to it.
AccumulateReplaces(buf, chunk) == chunk

\* buffer = Buffer.concat([buffer, chunk])
Accumulate(buf, chunk) == Concat(buf, chunk)

OnData(mode, st, chunk) ==
  LET st0 == [st EXCEPT !.buffer = Accumulate(st.buffer, chunk)]
  IN IF mode = "len-prefix" THEN LenPrefixLoop(st0) ELSE JpegMarkersLoop(st0)

\* Mutant: buffer and pendingLen are one pair of variables for all
\* connections (the first camera's), not one pair per connection.
HandlerStateShared(c) ==
  [buffer |-> buffer["camA"], pendingLen |-> pendingLen["camA"],
   latestFrame |-> latestFrame, framesReceived |-> framesReceived,
   bytesLastFrame |-> bytesLastFrame, base |-> base[c], handed |-> handed[c],
   trimmed |-> trimmed[c]]

\* The handler's view of the state for connection c.
HandlerState(c) ==
  [buffer |-> buffer[c], pendingLen |-> pendingLen[c],
   latestFrame |-> latestFrame, framesReceived |-> framesReceived,
   bytesLastFrame |-> bytesLastFrame, base |-> base[c], handed |-> handed[c],
   trimmed |-> trimmed[c]]

\* Stream offset of the first byte that belongs to a yielded frame: its
\* SOI, or the first byte of its length header.
FirstByteOf(mode, h) == IF mode = "len-prefix" THEN h.at - 4 ELSE h.at

Data(c, chunk) ==
  /\ proc # "exited"
  /\ socket[c] = "open"
  /\ LET st == OnData(FRAME_MODE, HandlerState(c), chunk)
     IN /\ buffer' = [buffer EXCEPT ![c] = st.buffer]
        /\ pendingLen' = [pendingLen EXCEPT ![c] = st.pendingLen]
        /\ latestFrame' = st.latestFrame
        /\ framesReceived' = st.framesReceived
        /\ bytesLastFrame' = st.bytesLastFrame
        /\ base' = [base EXCEPT ![c] = st.base]
        /\ handed' = [handed EXCEPT ![c] = st.handed]
        /\ trimmed' = [trimmed EXCEPT ![c] = st.trimmed]
  /\ sent' = [sent EXCEPT ![c] = @ \o chunk]
  /\ straddled' = [straddled EXCEPT ![c] =
       @ + Cardinality({i \in (Len(handed[c]) + 1)..Len(handed'[c]) :
                          FirstByteOf(FRAME_MODE, handed'[c][i]) < Len(sent[c])})]
  /\ UNCHANGED <<FRAME_MODE, timerVars, socket, tcpClients, httpVars, procVars>>

\* ------------------------------------------------------------------- Init
\* Number(process.env.EMIT_FPS || 12): a set variable is a non-empty string,
\* which is truthy whatever number it spells.
EnvNumber(env) == IF env = <<>> THEN DEFAULT_EMIT_FPS ELSE env[1]

\* Math.max(1, n)
Max1(n) == IF n < 1 THEN 1 ELSE n

\* const EMIT_FPS = Math.max(1, Number(process.env.EMIT_FPS || 12))
EmitFps(env) == Max1(EnvNumber(env))

\* Math.floor(1000 / EMIT_FPS), the delay handed to setInterval.
TickDelay(fps) == MS_PER_SECOND \div fps

\* Mutant: the timer takes the delay as it is given.
SetIntervalDelayRaw(delay) == delay

\* setInterval(callback, delay): a delay below 1 is set to 1 (the delays
\* computed here are at most 1000, far from the timer's upper limit).
SetIntervalDelay(delay) == IF delay >= 1 THEN delay ELSE 1

\* Module-level state after start-up with EMIT_FPS taken from env; no camera
\* has connected and the timer has just been created.
StartEnv(mode, env) ==
  /\ envEmitFps = env
  /\ EMIT_FPS = EmitFps(env)
  /\ interval = SetIntervalDelay(TickDelay(EmitFps(env)))
  /\ now = 0
  /\ due = SetIntervalDelay(TickDelay(EmitFps(env)))
  /\ FRAME_MODE = mode
  /\ socket = [c \in Conns |-> "none"]
  /\ tcpClients = {}
  /\ buffer = [c \in Conns |-> <<>>]
  /\ pendingLen = [c \in Conns |-> NoLen]
  /\ latestFrame = NoFrame
  /\ framesReceived = 0
  /\ bytesLastFrame = 0
  /\ sent = [c \in Conns |-> <<>>]
  /\ base = [c \in Conns |-> 0]
  /\ handed = [c \in Conns |-> <<>>]
  /\ trimmed = [c \in Conns |-> 0]
  /\ straddled = [c \in Conns |-> 0]
  /\ mjpegClients = {}
  /\ res = [r \in Clients |-> "none"]
  /\ reqClosed = {}
  /\ written = [r \in Clients |-> <<>>]
  /\ threw = {}
  /\ subscribedEmpty = {}
  /\ ticks = 0
  /\ listening = TRUE
  /\ proc = "running"

\* Start-up with EMIT_FPS unset.
Start(mode) == StartEnv(mode, <<>>)

\* tcpServer.on("connection")
Connection(c) ==
  /\ proc # "exited"
  /\ listening
  /\ socket[c] = "none"
  /\ socket' = [socket EXCEPT ![c] = "open"]
  /\ tcpClients' = tcpClients \cup {c}
  /\ buffer' = [buffer EXCEPT ![c] = <<>>]
  /\ pendingLen' = [pendingLen EXCEPT ![c] = NoLen]
  /\ UNCHANGED <<FRAME_MODE, timerVars, sent, base, handed, trimmed, straddled,
                 cacheVars, httpVars, procVars>>

\* socket.on("close"): the peer closed, or the socket was destroyed.
SocketClose(c) ==
  /\ proc # "exited"
  /\ socket[c] \in {"open", "errored", "destroyed"}
  /\ socket' = [socket EXCEPT ![c] = "closed"]
  /\ tcpClients' = tcpClients \ {c}
  /\ UNCHANGED <<FRAME_MODE, timerVars, buffer, pendingLen, sent, base, handed, trimmed,
                 straddled, cacheVars, httpVars, procVars>>

\* socket.on("error"); the socket's "close" follows.
SocketError(c) ==
  /\ proc # "exited"
  /\ socket[c] = "open"
  /\ socket' = [socket EXCEPT ![c] = "errored"]
  /\ tcpClients' = tcpClients \ {c}
  /\ UNCHANGED <<FRAME_MODE, timerVars, buffer, pendingLen, sent, base, handed, trimmed,
                 straddled, cacheVars, httpVars, procVars>>

\* ------------------------------------------------------- GET /stream.mjpg
\* The response head is sent, the response is registered; no body yet. The
\* handler does not look at whether shutdown has run: httpServer.close() only
\* stops new connections, and a request that arrives on a connection kept
\* alive from before is still routed here.
StreamMjpg(r) ==
  /\ proc # "exited"
  /\ res[r] = "none"
  /\ res' = [res EXCEPT ![r] = "open"]
  /\ mjpegClients' = mjpegClients \cup {r}
  /\ subscribedEmpty' = IF latestFrame = NoFrame THEN subscribedEmpty \cup {r}
                                                 ELSE subscribedEmpty
  /\ UNCHANGED <<FRAME_MODE, timerVars, ingestVars, cacheVars, reqClosed, written, threw,
                 ticks, procVars>>

\* Mutant: the removal is not idempotent; removing a response that is not in
\* the registry puts it there.
ReqCloseToggles(r) ==
  /\ proc # "exited"
  /\ res[r] # "none"
  /\ r \notin reqClosed
  /\ reqClosed' = reqClosed \cup {r}
  /\ mjpegClients' = IF r \in mjpegClients THEN mjpegClients \ {r}
                                            ELSE mjpegClients \cup {r}
  /\ res' = [res EXCEPT ![r] = "ended"]
  /\ UNCHANGED <<FRAME_MODE, timerVars, ingestVars, cacheVars, written, threw,
                 subscribedEmpty, ticks, procVars>>

\* req.on("close")
ReqClose(r) ==
  /\ proc # "exited"
  /\ res[r] # "none"
  /\ r \notin reqClosed
  /\ reqClosed' = reqClosed \cup {r}
  /\ mjpegClients' = mjpegClients \ {r}
  /\ res' = [res EXCEPT ![r] = "ended"]
  /\ UNCHANGED <<FRAME_MODE, timerVars, ingestVars, cacheVars, written, threw,
                 subscribedEmpty, ticks, procVars>>

\* ---------------------------------------------------------- broadcast tick
\* One res.write: a string, or the frame's bytes.
Str(text) == [str |-> text, bytes |-> <<>>]
Bytes(b) == [str |-> "", bytes |-> b]

\* Mutant: the frame's bytes are written before the part headers.
writeFrameToBodyFirst(body, frame) ==
  body \o << Bytes(frame),
             Str("--frame\r\n"),
             Str("Content-Type: image/jpeg\r\n"),
             Str("Content-Length: " \o ToString(Len(frame)) \o "\r\n\r\n"),
             Str("\r\n") >>

\* The five writes of writeFrameTo, appended to what the response carries.
writeFrameTo(body, frame) ==
  body \o << Str("--frame\r\n"),
             Str("Content-Type: image/jpeg\r\n"),
             Str("Content-Length: " \o ToString(Len(frame)) \o "\r\n\r\n"),
             Bytes(frame),
             Str("\r\n") >>

\* Mutant: no try/catch around writeFrameTo; a throw ends the callback and
\* the responses after it in the iteration get nothing.
TickAbortsOnThrow(failing) ==
  /\ proc # "exited"
  /\ failing \subseteq mjpegClients
  /\ latestFrame = NoFrame => failing = {}
  /\ ticks' = ticks + 1
  /\ threw' = failing
  /\ IF latestFrame = NoFrame \/ mjpegClients = {}
     THEN UNCHANGED <<mjpegClients, res, written>>
     ELSE /\ UNCHANGED <<mjpegClients, res>>
          /\ written' = [r \in Clients |->
               IF r \in mjpegClients /\ failing = {} /\ res[r] = "open"
               THEN writeFrameTo(written[r], latestFrame)
               ELSE written[r]]
  /\ due' = now + interval
  /\ UNCHANGED <<FRAME_MODE, envEmitFps, EMIT_FPS, interval, now, ingestVars,
                 cacheVars, reqClosed, subscribedEmpty, procVars>>

\* Mutant: the frame is written to each response twice in a tick.
TickWritesTwice(failing) ==
  /\ proc # "exited"
  /\ failing \subseteq mjpegClients
  /\ latestFrame = NoFrame => failing = {}
  /\ ticks' = ticks + 1
  /\ threw' = failing
  /\ IF latestFrame = NoFrame \/ mjpegClients = {}
     THEN UNCHANGED <<mjpegClients, res, written>>
     ELSE /\ mjpegClients' = mjpegClients \ failing
          /\ res' = [r \in Clients |-> IF r \in failing THEN "ended" ELSE res[r]]
          /\ written' = [r \in Clients |->
               IF r \in mjpegClients /\ r \notin failing /\ res[r] = "open"
               THEN writeFrameTo(writeFrameTo(written[r], latestFrame),
                                 latestFrame)
               ELSE written[r]]
  /\ due' = now + interval
  /\ UNCHANGED <<FRAME_MODE, envEmitFps, EMIT_FPS, interval, now, ingestVars,
                 cacheVars, reqClosed, subscribedEmpty, procVars>>

\* The timer callback. failing: the registered responses whose res.write
\* throws in this tick (on the first write of writeFrameTo). A write on an
\* ended response that does not throw puts nothing on the body. The timer is
\* re-armed for one interval later.
Tick(failing) ==
  /\ proc # "exited"
  /\ failing \subseteq mjpegClients
  /\ latestFrame = NoFrame => failing = {}
  /\ ticks' = ticks + 1
  /\ threw' = failing
  /\ IF latestFrame = NoFrame \/ mjpegClients = {}
     THEN UNCHANGED <<mjpegClients, res, written>>
     ELSE /\ mjpegClients' = mjpegClients \ failing
          /\ res' = [r \in Clients |-> IF r \in failing THEN "ended" ELSE res[r]]
          /\ written' = [r \in Clients |->
               IF r \in mjpegClients /\ r \notin failing /\ res[r] = "open"
               THEN writeFrameTo(written[r], latestFrame)
               ELSE written[r]]
  /\ due' = now + interval
  /\ UNCHANGED <<FRAME_MODE, envEmitFps, EMIT_FPS, interval, now, ingestVars,
                 cacheVars, reqClosed, subscribedEmpty, procVars>>

\* ---------------------------------------------------------------- shutdown
\* SIGINT / SIGTERM: tcpServer.close(), destroy every camera socket, end
\* every registered response, httpServer.close(() => process.exit(0)).
shutdown ==
  /\ proc = "running"
  /\ listening' = FALSE
  /\ socket' = [c \in Conns |->
                  IF c \in tcpClients THEN "destroyed" ELSE socket[c]]
  /\ res' = [r \in Clients |-> IF r \in mjpegClients THEN "ended" ELSE res[r]]
  /\ proc' = "closing"
  /\ UNCHANGED <<FRAME_MODE, timerVars, tcpClients, buffer, pendingLen, sent, base,
                 handed, trimmed, straddled, cacheVars, mjpegClients,
                 reqClosed, written, threw, subscribedEmpty, ticks>>

\* The callback of httpServer.close: every HTTP connection has closed.
Exit ==
  /\ proc = "closing"
  /\ \A r \in Clients : res[r] # "none" => r \in reqClosed
  /\ proc' = "exited"
  /\ UNCHANGED <<FRAME_MODE, timerVars, ingestVars, cacheVars, httpVars, listening>>

\* -------------------------------------------------------------- timer runs
\* The values EMIT_FPS is started with: unset, below 1, small, and above 1000.
EnvEmitFps ==
  {<<>>} \cup {<<n>> : n \in {-5, 0, 1, 2, 3, 10, 500, 1000, 1001, 2000}}

\* A millisecond passes with no timer due.
Elapse ==
  /\ proc # "exited"
  /\ now < MaxClock
  /\ now < due
  /\ now' = now + 1
  /\ UNCHANGED <<FRAME_MODE, envEmitFps, EMIT_FPS, interval, due, ingestVars,
                 cacheVars, httpVars, procVars>>

InitTimer == \E env \in EnvEmitFps : StartEnv("jpeg-markers", env)

NextTimer ==
  \/ Elapse
  \/ now = due /\ Tick({})

SpecTimer == InitTimer /\ [][NextTimer]_vars

\* ------------------------------------------------------- extractor runs
\* One camera, every byte stream up to the bound, every chunking of it.
ChunksOver(bytes, n) == UNION {[1..k -> bytes] : k \in 1..n}

InitMarkers == Start("jpeg-markers")

NextMarkers ==
  \/ Connection("camA")
  \/ \E chunk \in ChunksOver(MarkerBytes, MaxMarkerStream - Len(sent["camA"])) :
       Data("camA", chunk)

SpecMarkers == InitMarkers /\ [][NextMarkers]_vars

InitLenPrefix == Start("len-prefix")

NextLenPrefix ==
  \/ Connection("camA")
  \/ \E chunk \in ChunksOver(LenBytes, MaxLenStream - Len(sent["camA"])) :
       Data("camA", chunk)

SpecLenPrefix == InitLenPrefix /\ [][NextLenPrefix]_vars

\* Either framing mode, one camera, every byte stream up to the bound in
\* every chunking.
InitExtract == \E mode \in Modes : Start(mode)

NextExtract ==
  \/ Connection("camA")
  \/ /\ FRAME_MODE = "jpeg-markers"
     /\ \E chunk \in ChunksOver(MarkerBytes,
                                 MaxExtractMarkerStream - Len(sent["camA"])) :
          Data("camA", chunk)
  \/ /\ FRAME_MODE = "len-prefix"
     /\ \E chunk \in ChunksOver(LenBytes, MaxLenStream - Len(sent["camA"])) :
          Data("camA", chunk)

SpecExtract == InitExtract /\ [][NextExtract]_vars

\* ------------------------------------------------------------ ingest runs
\* Two cameras, both framing modes; the cameras send the pieces below in any
\* order and interleaving, up to MaxIngestBytes bytes in total.
IngestChunks(mode) ==
  IF mode = "len-prefix"
  THEN {<<0, 0, 0, 5>>, <<0, 0, 0, 2>>, <<65, 66>>, <<67, 68, 69>>}
  ELSE {<<255, 216>>, <<255, 216, 0>>, <<255, 217>>}

RECURSIVE SumOver(_, _)
SumOver(f, S) ==
  IF S = {} THEN 0
  ELSE LET x == CHOOSE y \in S : TRUE IN f[x] + SumOver(f, S \ {x})

TotalSent == SumOver([c \in Conns |-> Len(sent[c])], Conns)
TotalHanded == SumOver([c \in Conns |-> Len(handed[c])], Conns)

InitIngest == \E mode \in Modes : Start(mode)

NextIngest ==
  \/ \E c \in Conns : Connection(c)
  \/ \E c \in Conns : \E chunk \in IngestChunks(FRAME_MODE) :
       /\ TotalSent + Len(chunk) <= MaxIngestBytes
       /\ Data(c, chunk)
  \/ \E c \in Conns : SocketClose(c)
  \/ \E c \in Conns : SocketError(c)

SpecIngest == InitIngest /\ [][NextIngest]_vars

\* ------------------------------------------------------------ whole system
\* One camera sends whole frames (two different valid ones), the other only
\* connects and disconnects; responses subscribe and disconnect; the timer
\* fires; the process may be shut down. Frames sent and timer firings together
\* number at most MaxEvents.
FrameSenders == {"camA"}

FrameChunks(mode) ==
  IF mode = "len-prefix"
  THEN {<<0, 0, 0, 5, 65, 66, 67, 68, 69>>, <<0, 0, 0, 5, 70, 71, 72, 73, 74>>}
  ELSE {<<255, 216, 0, 255, 217>>, <<255, 216, 1, 255, 217>>}

Init == \E mode \in Modes : Start(mode)

Next ==
  \/ \E c \in Conns : Connection(c)
  \/ \E c \in FrameSenders : \E chunk \in FrameChunks(FRAME_MODE) :
       /\ TotalHanded + ticks < MaxEvents
       /\ Data(c, chunk)
  \/ \E c \in Conns : SocketClose(c)
  \/ \E c \in Conns : SocketError(c)
  \/ \E r \in Clients : StreamMjpg(r)
  \/ \E r \in Clients : ReqClose(r)
  \/ \E failing \in SUBSET mjpegClients : TotalHanded + ticks < MaxEvents /\ Tick(failing)
  \/ shutdown
  \/ Exit

Spec == Init /\ [][Next]_vars

\* ------------------------------------------------- single-chunk reference
\* What a fresh connection hands to handleFrame when the whole stream
\* arrives as one data event.
FreshState ==
  [buffer |-> <<>>, pendingLen |-> NoLen, latestFrame |-> NoFrame,
   framesReceived |-> 0, bytesLastFrame |-> 0, base |-> 0, handed |-> <<>>,
   trimmed |-> 0]

SingleChunk(mode, stream) ==
  IF stream = <<>> THEN FreshState ELSE OnData(mode, FreshState, stream)

FramesOf(h) == [i \in 1..Len(h) |-> h[i].frame]

\* ===================================================== properties checked
NoSOI(buf) == \A i \in 1..(Len(buf) - 1) : <<buf[i], buf[i + 1]>> # SOI
NoEOI(buf) == \A i \in 1..(Len(buf) - 1) : <<buf[i], buf[i + 1]>> # EOI
LastBytes(buf, n) == SubSeq(buf, Len(buf) - n + 1, Len(buf))

\* In a step: c received a data event; the chunk it delivered; the buffer
\* the handler's loop started from.
DataStepOn(c) == sent'[c] # sent[c]
ChunkOf(c) == SubSeq(sent'[c], Len(sent[c]) + 1, Len(sent'[c]))
Accumulated(c) == buffer[c] \o ChunkOf(c)

\* C1: in jpeg-markers mode the frames a connection has passed to handleFrame,
\* whatever the chunks its stream arrived in, are the frames the same stream
\* yields when delivered as one chunk.
C1_MarkerChunkingInvariant ==
  FRAME_MODE = "jpeg-markers" =>
    \A c \in Conns :
      FramesOf(handed[c]) = FramesOf(SingleChunk(FRAME_MODE, sent[c]).handed)

\* A chunked delivery that trimmed the buffer, where the single chunk does
\* not, and then yielded a frame whose bytes came in several data events.
C1_Witness ==
  /\ FRAME_MODE = "jpeg-markers"
  /\ \E c \in Conns :
       /\ trimmed[c] > 0
       /\ straddled[c] > 0
       /\ handed[c] # <<>>
       /\ Len(sent[c]) > HIGH_WATER
       /\ SingleChunk(FRAME_MODE, sent[c]).trimmed = 0

\* C2: in len-prefix mode the frames a connection has passed to handleFrame,
\* whatever the chunks its stream arrived in, are the frames the same stream
\* yields when delivered as one chunk.
C2_LenPrefixChunkingInvariant ==
  FRAME_MODE = "len-prefix" =>
    \A c \in Conns :
      FramesOf(handed[c]) = FramesOf(SingleChunk(FRAME_MODE, sent[c]).handed)

\* A frame of declared length 0 was yielded, a frame was put together from
\* several data events, and the next header is split: one to three of its
\* bytes are buffered.
C2_Witness ==
  /\ FRAME_MODE = "len-prefix"
  /\ \E c \in Conns :
       /\ \E i \in 1..Len(handed[c]) : handed[c][i].frame = <<>>
       /\ straddled[c] > 0
       /\ pendingLen[c] = NoLen
       /\ Len(buffer[c]) \in 1..3

\* The buffer of claim C8: a non-empty prefix without SOI, then SOI, bytes
\* without EOI, and EOI as its last two bytes; longer than the high-water
\* mark.
GarbageThenFrame(buf) ==
  LET start == IndexOf(buf, SOI, 0)
  IN /\ start >= 1
     /\ IndexOf(buf, EOI, start + 2) = Len(buf) - 2
     /\ Len(buf) > HIGH_WATER

GarbageLen(buf) == IndexOf(buf, SOI, 0)

\* C8 as stated: processing such a buffer cuts the garbage prefix down to
\* TAIL_SIZE bytes, removing the rest of it by the trim and no more.
C8_AsStated ==
  [][\A c \in Conns :
       (FRAME_MODE = "jpeg-markers" /\ DataStepOn(c)
          /\ GarbageThenFrame(Accumulated(c)))
       => trimmed'[c] - trimmed[c] =
            (IF GarbageLen(Accumulated(c)) > TAIL_SIZE
             THEN GarbageLen(Accumulated(c)) - TAIL_SIZE ELSE 0)]_vars

\* C8 amended: processing such a buffer trims nothing; the bytes from SOI
\* through EOI are passed to handleFrame and the whole garbage prefix is
\* dropped with them, which leaves the buffer empty.
C8_GarbageDroppedWithFrame ==
  [][\A c \in Conns :
       (FRAME_MODE = "jpeg-markers" /\ DataStepOn(c)
          /\ GarbageThenFrame(Accumulated(c)))
       => LET buf == Accumulated(c)
              g == GarbageLen(buf)
          IN /\ trimmed'[c] = trimmed[c]
             /\ buffer'[c] = <<>>
             /\ base'[c] = base[c] + Len(buf)
             /\ handed'[c] = Append(handed[c],
                                    [frame |-> SubSeq(buf, g + 1, Len(buf)),
                                     at |-> base[c] + g])]_vars

\* Garbage longer than the tail, then one frame, all still buffered when the
\* frame completed (nothing was trimmed or extracted before), over the
\* high-water mark in total.
C8_Witness ==
  /\ FRAME_MODE = "jpeg-markers"
  /\ \E c \in Conns :
       /\ Len(handed[c]) = 1
       /\ trimmed[c] = 0
       /\ handed[c][1].at > TAIL_SIZE
       /\ handed[c][1].at + Len(handed[c][1].frame) = Len(sent[c])
       /\ Len(sent[c]) > HIGH_WATER
       /\ buffer[c] = <<>>

\* C9: in jpeg-markers mode, between data events a buffer without SOI is no
\* longer than HIGH_WATER; a data event whose accumulated buffer has no SOI
\* and is longer than HIGH_WATER leaves exactly its last TAIL_SIZE bytes.
C9_Bounded ==
  FRAME_MODE = "jpeg-markers" =>
    \A c \in Conns : NoSOI(buffer[c]) => Len(buffer[c]) <= HIGH_WATER

C9_TrimStep ==
  \A c \in Conns :
    (FRAME_MODE = "jpeg-markers" /\ DataStepOn(c)
       /\ NoSOI(Accumulated(c)) /\ Len(Accumulated(c)) > HIGH_WATER)
    => /\ buffer'[c] = LastBytes(Accumulated(c), TAIL_SIZE)
       /\ trimmed'[c] = trimmed[c] + Len(Accumulated(c)) - TAIL_SIZE

C9_NoStartMarkerBufferBounded == []C9_Bounded /\ [][C9_TrimStep]_vars

\* A buffer that was trimmed to the tail.
C9_Witness ==
  /\ FRAME_MODE = "jpeg-markers"
  /\ \E c \in Conns :
       /\ trimmed[c] > 0
       /\ NoSOI(buffer[c])
       /\ Len(buffer[c]) = TAIL_SIZE

\* The 4-byte big-endian encoding of n.
BE32(n) ==
  <<n \div 16777216, (n \div 65536) % 256, (n \div 256) % 256, n % 256>>

\* The bytes that carry the frames of h: each frame after its own header.
RECURSIVE Wire(_)
Wire(h) ==
  IF h = <<>> THEN <<>>
  ELSE Wire(SubSeq(h, 1, Len(h) - 1))
         \o BE32(Len(h[Len(h)].frame)) \o h[Len(h)].frame

\* C10: in len-prefix mode the stream received so far is, in order, every
\* frame yielded after a header declaring its length, then the header being
\* awaited (if one was read) and the buffered bytes, which are fewer than
\* that header declares; each frame starts right after its header.
C10_LenPrefixAccounting ==
  FRAME_MODE = "len-prefix" =>
    \A c \in Conns :
      /\ sent[c] = Wire(handed[c])
                     \o (IF pendingLen[c] = NoLen THEN <<>>
                         ELSE BE32(pendingLen[c]))
                     \o buffer[c]
      /\ pendingLen[c] # NoLen => Len(buffer[c]) < pendingLen[c]
      /\ \A i \in 1..Len(handed[c]) :
           handed[c][i].at = Len(Wire(SubSeq(handed[c], 1, i)))
                               - Len(handed[c][i].frame)

\* One frame was yielded whole and the next header is read, with fewer bytes
\* buffered than it declares.
C10_Witness ==
  /\ FRAME_MODE = "len-prefix"
  /\ \E c \in Conns :
       /\ \E i \in 1..Len(handed[c]) : Len(handed[c][i].frame) > 0
       /\ pendingLen[c] # NoLen
       /\ pendingLen[c] \in 1..255
       /\ Len(buffer[c]) < pendingLen[c]

\* C3: the latest-frame slot is empty or holds a frame of at least
\* MIN_FRAME_LEN bytes, in both modes and under any interleaving of the
\* cameras' data events.
C3_LatestFrameNeverShort ==
  latestFrame = NoFrame \/ Len(latestFrame) >= MIN_FRAME_LEN

\* One camera handed handleFrame a frame below the minimum, another a valid
\* one, which is cached.
C3_Witness ==
  \E c \in Conns : \E d \in Conns \ {c} :
    /\ \E i \in 1..Len(handed[c]) : Len(handed[c][i].frame) < MIN_FRAME_LEN
    /\ \E j \in 1..Len(handed[d]) : handed[d][j].frame = latestFrame
    /\ latestFrame # NoFrame

\* In a step: the timer fired.
TickStep == ticks' = ticks + 1
IsPrefix(a, b) == Len(a) <= Len(b) /\ SubSeq(b, 1, Len(a)) = a

\* C4: in a tick with a frame cached, a registered response whose write
\* throws is removed from the registry and ended, and every other registered
\* open response has that frame's bytes appended to its body and stays
\* registered.
C4_WriteFailureIsolated ==
  [][(TickStep /\ latestFrame # NoFrame)
     => \A r \in mjpegClients :
          /\ r \in threw' => (r \notin mjpegClients' /\ res'[r] = "ended"
                               /\ written'[r] = written[r])
          /\ (r \notin threw' /\ res[r] = "open")
               => /\ r \in mjpegClients'
                  /\ res'[r] = "open"
                  /\ IsPrefix(written[r], written'[r])
                  /\ \E i \in (Len(written[r]) + 1)..Len(written'[r]) :
                       written'[r][i].bytes = latestFrame]_vars

\* The only tick so far: one response's write threw and it is gone, the
\* other received the frame.
C4_Witness ==
  /\ ticks = 1
  /\ \E r \in threw : r \notin mjpegClients /\ res[r] = "ended"
  /\ \E r \in mjpegClients \ threw :
       \E i \in 1..Len(written[r]) : written[r][i].bytes = latestFrame

\* In a step: the frames c passed to handleFrame.
NewlyHanded(c) == SubSeq(handed'[c], Len(handed[c]) + 1, Len(handed'[c]))
\* The last frame of h that passes the length check, else keep.
LastValid(h, keep) ==
  LET ok == {i \in 1..Len(h) : Len(h[i].frame) >= MIN_FRAME_LEN}
  IN IF ok = {} THEN keep
     ELSE h[CHOOSE i \in ok : \A j \in ok : j <= i].frame

\* C5: after a data event the slot holds the last valid frame that event
\* passed to handleFrame, whichever camera it came from and whatever was
\* there before; if it passed none, and in every other step, the slot is
\* unchanged.
C5_LastWriteWins ==
  [][/\ \A c \in Conns :
          DataStepOn(c) => latestFrame' = LastValid(NewlyHanded(c), latestFrame)
     /\ (\A c \in Conns : ~DataStepOn(c)) => latestFrame' = latestFrame]_vars

\* Two cameras have each handed in a valid frame; the slot holds the later
\* one only.
C5_Witness ==
  \E c \in Conns : \E d \in Conns \ {c} :
    /\ \E i \in 1..Len(handed[c]) :
         /\ Len(handed[c][i].frame) >= MIN_FRAME_LEN
         /\ handed[c][i].frame # latestFrame
    /\ \E j \in 1..Len(handed[d]) : handed[d][j].frame = latestFrame
    /\ framesReceived = 2

\* C6: the frames a connection has passed to handleFrame are, in the order of
\* the calls, byte ranges of its stream that follow one another.
C6_FramesInStreamOrder ==
  \A c \in Conns : \A i \in 1..Len(handed[c]) :
    LET f == handed[c][i]
    IN /\ f.at >= 0
       /\ f.at + Len(f.frame) <= Len(sent[c])
       /\ f.frame = SubSeq(sent[c], f.at + 1, f.at + Len(f.frame))
       /\ i > 1 => handed[c][i - 1].at + Len(handed[c][i - 1].frame) <= f.at

\* A connection has yielded two frames, one of them put together from
\* several data events.
C6_Witness ==
  \E c \in Conns :
    /\ Len(handed[c]) >= 2
    /\ straddled[c] >= 1
    /\ handed[c][1].at < handed[c][2].at

\* C7: a data event on one connection leaves the buffer, the pending length
\* and the frames of every other connection as they were, and the frames of
\* each connection are those its own stream yields alone.
C7_Untouched ==
  \A c \in Conns :
    DataStepOn(c) =>
      \A d \in Conns \ {c} :
        /\ buffer'[d] = buffer[d]
        /\ pendingLen'[d] = pendingLen[d]
        /\ handed'[d] = handed[d]

C7_AsAlone ==
  \A c \in Conns :
    LET alone == SingleChunk(FRAME_MODE, sent[c])
    IN /\ FramesOf(handed[c]) = FramesOf(alone.handed)
       /\ pendingLen[c] = alone.pendingLen
       /\ FRAME_MODE = "len-prefix" => buffer[c] = alone.buffer

C7_ConnectionsIsolated == []C7_AsAlone /\ [][C7_Untouched]_vars

\* Both cameras have yielded a frame put together from several data events.
C7_Witness ==
  \A c \in Conns : straddled[c] >= 1 /\ handed[c] # <<>>

\* The part of the multipart body that carries frame, as the sequence of
\* writes it is made of.
PartOf(frame) ==
  << [str |-> "--frame\r\n", bytes |-> <<>>],
     [str |-> "Content-Type: image/jpeg\r\n", bytes |-> <<>>],
     [str |-> "Content-Length: " \o ToString(Len(frame)) \o "\r\n\r\n",
      bytes |-> <<>>],
     [str |-> "", bytes |-> frame],
     [str |-> "\r\n", bytes |-> <<>>] >>

\* C11: a response registered while the cache was empty has an empty body as
\* long as no frame is cached; its body becomes non-empty only in a tick with
\* a valid frame cached, and is then exactly the boundary line, the
\* Content-Type line, the Content-Length line with the frame's length, the
\* frame's bytes and CRLF, in that order.
C11_EmptyUntilFrame ==
  \A r \in subscribedEmpty : latestFrame = NoFrame => written[r] = <<>>

C11_FirstWrite ==
  \A r \in subscribedEmpty :
    (written[r] = <<>> /\ written'[r] # <<>>)
    => /\ TickStep
       /\ latestFrame # NoFrame
       /\ Len(latestFrame) >= MIN_FRAME_LEN
       /\ written'[r] = PartOf(latestFrame)

C11_FirstWriteIsOnePart == []C11_EmptyUntilFrame /\ [][C11_FirstWrite]_vars

\* A response registered while the cache was empty went through a tick that
\* wrote nothing, and now carries its first part.
C11_Witness ==
  \E r \in subscribedEmpty :
    /\ ticks >= 2
    /\ r \in mjpegClients
    /\ written[r] = PartOf(latestFrame)

\* In a step: the "close" event of r's request fired.
ReqCloseStep(r) == r \in reqClosed' /\ r \notin reqClosed

\* C12: a response removed by its request's "close", by a write that threw
\* in a tick, or by both, is not in the registry; each removal takes out that
\* response only and leaves every other member, and removing a response that
\* is already out changes nothing.
C12_Removed == \A r \in reqClosed \cup threw : r \notin mjpegClients

C12_RemovalStep ==
  /\ \A r \in Clients : ReqCloseStep(r) => mjpegClients' = mjpegClients \ {r}
  /\ TickStep => mjpegClients' = mjpegClients \ threw'

C12_RemovalIdempotent == []C12_Removed /\ [][C12_RemovalStep]_vars

\* A response was removed by a failed write and then its request closed; the
\* other response is still registered.
C12_Witness ==
  \E r \in threw \cap reqClosed :
    /\ r \notin mjpegClients
    /\ \E q \in Clients \ {r} : q \in mjpegClients /\ res[q] = "open"

\* In a step: shutdown ran.
ShutdownStep == proc = "running" /\ proc' = "closing"

\* C13 as stated (its safety part): shutdown stops the TCP server, destroys
\* every camera socket of the registry and ends every registered response;
\* once it has run no camera connection is accepted and no tick puts
\* anything on the body of any response.
C13_AsStated ==
  [][/\ ShutdownStep
        => /\ ~listening'
           /\ \A c \in tcpClients : socket'[c] = "destroyed"
           /\ \A r \in mjpegClients : res'[r] = "ended"
     /\ proc # "running"
        => /\ \A c \in Conns : socket'[c] = "open" => socket[c] = "open"
           /\ TickStep => written' = written]_vars

\* The configured emission rate: the value of EMIT_FPS, or the default.
ConfiguredFps == EnvNumber(envEmitFps)

\* max(1, floor(1000 / fps)) for fps other than 0; floor(1000 / fps) is
\* negative for a negative fps.
ClaimedPeriod(fps) == IF fps < 0 THEN 1 ELSE Max1(1000 \div fps)

C15_TickSendsLatestOnce ==
  [][IF TickStep /\ latestFrame # NoFrame
     THEN \A r \in Clients :
            \/ written'[r] = written[r]
            \/ /\ r \in mjpegClients
               /\ written'[r] = written[r] \o PartOf(latestFrame)
     ELSE written' = written]_vars

\* Two different frames were cached while a response was registered, then
\* the timer fired for the first time: the response carries one part, the
\* second frame.
C15_Witness ==
  \E r \in subscribedEmpty :
    /\ ticks = 1
    /\ framesReceived = 2
    /\ \E c \in Conns : \E i \in 1..Len(handed[c]) :
         handed[c][i].frame # latestFrame
    /\ written[r] = PartOf(latestFrame)

\* The frames of h of at least the minimum size.
ValidIn(h) == {i \in 1..Len(h) : Len(h[i].frame) >= MIN_FRAME_LEN}

\* C16: in a data event every frame removed from the buffer, short or not,
\* is consumed: the buffer left is the part of the stream after the bytes
\* consumed, which lie after the end of every frame removed, and in
\* len-prefix mode no length is pending unless a later header was read. The
\* cache changes only by the valid frames: with none among the frames
\* removed latestFrame, framesReceived and bytesLastFrame are unchanged, and
\* a valid frame after a short one is cached.
C16_ShortFrameConsumed ==
  [][\A c \in Conns :
       DataStepOn(c) =>
         LET new == NewlyHanded(c)
             last == new[Len(new)]
         IN /\ buffer'[c] = SubSeq(sent'[c], base'[c] + 1, Len(sent'[c]))
            /\ new # <<>> =>
                 /\ base'[c] >= last.at + Len(last.frame)
                 /\ FRAME_MODE = "jpeg-markers" =>
                      base'[c] - trimmed'[c] + trimmed[c]
                        = last.at + Len(last.frame)
                 /\ (FRAME_MODE = "len-prefix" /\ pendingLen'[c] = NoLen) =>
                      base'[c] = last.at + Len(last.frame)
                 /\ (FRAME_MODE = "len-prefix" /\ pendingLen'[c] # NoLen) =>
                      base'[c] = last.at + Len(last.frame) + 4
            /\ framesReceived' = framesReceived + Cardinality(ValidIn(new))
            /\ ValidIn(new) = {} =>
                 <<latestFrame, bytesLastFrame>>' = <<latestFrame, bytesLastFrame>>
            /\ ValidIn(new) # {} =>
                 /\ latestFrame' = LastValid(new, latestFrame)
                 /\ bytesLastFrame' = Len(latestFrame')]_vars

\* A connection yielded a short frame and, right behind it in the stream, a
\* valid one, which is the only frame cached.
C16_Witness ==
  \E c \in Conns : \E i \in 1..(Len(handed[c]) - 1) :
    /\ Len(handed[c][i].frame) < MIN_FRAME_LEN
    /\ Len(handed[c][i + 1].frame) >= MIN_FRAME_LEN
    /\ latestFrame = handed[c][i + 1].frame
    /\ framesReceived = 1

\* buf holds a complete marker frame: an end marker 2 bytes or more after
\* its first start marker.
HasMarkerFrame(buf) ==
  \E i \in 1..(Len(buf) - 1) :
    /\ <<buf[i], buf[i + 1]>> = SOI
    /\ \A k \in 1..(i - 1) : <<buf[k], buf[k + 1]>> # SOI
    /\ \E j \in (i + 2)..(Len(buf) - 1) : <<buf[j], buf[j + 1]>> = EOI

\* C17: every data event runs to its end, having gone round its loop at most
\* once per 4 bytes it had to work on (a header or a pair of markers per
\* frame, declared length 0 included), and leaves no complete frame behind:
\* in jpeg-markers mode no end marker 2 bytes or more after the first start
\* marker, in len-prefix mode fewer than 4 bytes with no length pending, or
\* fewer bytes than the pending length.
C17_NoFrameLeft ==
  \A c \in Conns :
    IF FRAME_MODE = "jpeg-markers"
    THEN ~HasMarkerFrame(buffer[c])
    ELSE \/ pendingLen[c] = NoLen /\ Len(buffer[c]) < 4
         \/ pendingLen[c] # NoLen /\ Len(buffer[c]) < pendingLen[c]

C17_LoopBounded ==
  \A c \in Conns :
    DataStepOn(c) =>
      4 * Len(NewlyHanded(c))
        <= Len(Accumulated(c)) + (IF pendingLen[c] = NoLen THEN 0 ELSE 4)

C17_DataEventDrains == []C17_NoFrameLeft /\ [][C17_LoopBounded]_vars

\* In len-prefix mode a connection has yielded two frames, one of them of
\* declared length 0, and is left with part of the next header.
C17_Witness ==
  /\ FRAME_MODE = "len-prefix"
  /\ \E c \in Conns :
       /\ Len(handed[c]) >= 2
       /\ \E i \in 1..Len(handed[c]) : handed[c][i].frame = <<>>
       /\ straddled[c] = 0
       /\ pendingLen[c] = NoLen
       /\ Len(buffer[c]) \in 1..3

\* C18: in jpeg-markers mode a data event whose accumulated buffer holds a
\* start marker and no end marker 2 bytes or more after the first one
\* removes nothing: the buffer afterwards is the buffer before with the chunk
\* appended, bytes before the start marker included, whatever its length; no
\* frame is yielded and nothing is trimmed.
C18_PendingStartKeepsAll ==
  [][\A c \in Conns :
       (FRAME_MODE = "jpeg-markers" /\ DataStepOn(c)
          /\ ~NoSOI(Accumulated(c)) /\ ~HasMarkerFrame(Accumulated(c)))
       => /\ buffer'[c] = buffer[c] \o ChunkOf(c)
          /\ Len(buffer'[c]) = Len(buffer[c]) + Len(ChunkOf(c))
          /\ trimmed'[c] = trimmed[c]
          /\ handed'[c] = handed[c]]_vars

\* A buffer of twice the high-water mark and more: bytes without a start
\* marker, then a start marker still waiting for its end marker; nothing of
\* the stream was removed.
C18_Witness ==
  /\ FRAME_MODE = "jpeg-markers"
  /\ \E c \in Conns :
       /\ Len(buffer[c]) >= 2 * HIGH_WATER
       /\ IndexOf(buffer[c], SOI, 0) >= 1
       /\ ~HasMarkerFrame(buffer[c])
       /\ buffer[c] = sent[c]
       /\ trimmed[c] = 0

\* Where the stream of c had been consumed up to when frame i was cut out:
\* the end of the frame before it, or the beginning of the stream.
ConsumedBefore(c, i) ==
  IF i = 1 THEN 0 ELSE handed[c][i - 1].at + Len(handed[c][i - 1].frame)

\* C19: every frame yielded in jpeg-markers mode begins with the first start
\* marker of what was left of the stream (no start marker lies between the
\* bytes consumed before and the frame), ends with an end marker, and has no
\* end marker earlier in it from offset 2 on; cutting it out leaves the buffer
\* with exactly the bytes that came after its end marker.
C19_FrameRange ==
  FRAME_MODE = "jpeg-markers" =>
    \A c \in Conns : \A i \in 1..Len(handed[c]) :
      LET f == handed[c][i].frame
          at == handed[c][i].at
          n == Len(f)
      IN /\ n >= 4
         /\ f = SubSeq(sent[c], at + 1, at + n)
         /\ SubSeq(f, 1, 2) = SOI
         /\ SubSeq(f, n - 1, n) = EOI
         /\ \A j \in 2..(n - 3) : SubSeq(f, j + 1, j + 2) # EOI
         /\ at >= ConsumedBefore(c, i)
         /\ \A k \in ConsumedBefore(c, i)..(at - 1) :
              SubSeq(sent[c], k + 1, k + 2) # SOI

C19_RestFollows ==
  \A c \in Conns :
    (FRAME_MODE = "jpeg-markers" /\ DataStepOn(c) /\ NewlyHanded(c) # <<>>
       /\ trimmed'[c] = trimmed[c])
    => LET last == handed'[c][Len(handed'[c])]
       IN buffer'[c] = SubSeq(sent'[c], last.at + Len(last.frame) + 1,
                              Len(sent'[c]))

C19_MarkerFrameRange == []C19_FrameRange /\ [][C19_RestFollows]_vars

\* A frame longer than its two markers was cut out from behind bytes that
\* are not part of it, and the bytes that came after its end marker are in
\* the buffer.
C19_Witness ==
  /\ FRAME_MODE = "jpeg-markers"
  /\ \E c \in Conns :
       /\ Len(handed[c]) = 1
       /\ handed[c][1].at >= 1
       /\ Len(handed[c][1].frame) >= 5
       /\ buffer[c] # <<>>
       /\ buffer[c] = SubSeq(sent[c],
                             handed[c][1].at + Len(handed[c][1].frame) + 1,
                             Len(sent[c]))

\* Valid frames handed to handleFrame so far, over all connections.
TotalValid ==
  SumOver([c \in Conns |-> Cardinality(ValidIn(handed[c]))], Conns)

\* C20: the slot is empty exactly while framesReceived is 0, with
\* bytesLastFrame 0; a frame in the slot has bytesLastFrame bytes;
\* framesReceived is the number of valid frames handed to handleFrame, never
\* goes down, and goes up by one per valid frame of a data event.
C20_Consistent ==
  /\ latestFrame = NoFrame <=> framesReceived = 0
  /\ latestFrame = NoFrame => bytesLastFrame = 0
  /\ latestFrame # NoFrame => bytesLastFrame = Len(latestFrame)
  /\ framesReceived = TotalValid

C20_CountStep ==
  /\ framesReceived' >= framesReceived
  /\ \A c \in Conns :
       DataStepOn(c) =>
         framesReceived' = framesReceived + Cardinality(ValidIn(NewlyHanded(c)))
  /\ (\A c \in Conns : ~DataStepOn(c)) => framesReceived' = framesReceived

C20_CacheConsistent == []C20_Consistent /\ [][C20_CountStep]_vars

\* Frames of two different sizes were cached one after the other, and a
\* short frame was handed in as well; the size reported is the second's.
C20_Witness ==
  /\ framesReceived = 2
  /\ TotalHanded = 3
  /\ \E c \in Conns : \E i \in ValidIn(handed[c]) :
       Len(handed[c][i].frame) # Len(latestFrame)
  /\ bytesLastFrame = Len(latestFrame)

====
